---- MODULE Spec2Model ----
(***************************************************************************)
(* A model of html_sanitizer (src/src/lib.rs): TagParser::walk and the     *)
(* recursive TagParser::internal_walk over an html5ever RcDom, and the     *)
(* Tag object handed to the sanitizing callback.                           *)
(*                                                                         *)
(* Strings are sequences of one-character strings, so that trimming and    *)
(* concatenation are computed and not assumed.  The recursion of           *)
(* internal_walk is an explicit call stack: one frame per active call,     *)
(* holding the call's own `output` accumulator and, for an element, its    *)
(* Tag.  The callback is a sequence of calls of the Tag's public methods.  *)
(***************************************************************************)
EXTENDS Integers, Sequences, FiniteSets, TLC

\* ------------------------------------------------------------- bounds
\* Largest number of nodes below the Document node.
MaxNodes == 3
\* Largest size of a walk: the nodes below the Document node plus the Tag
\* method calls the callbacks make.
MaxSize == 5

\* ------------------------------------------------------------- the DOM
\* html5ever::rcdom::NodeData, as matched in internal_walk.
NodeKinds == {"Document", "Doctype", "Text", "Comment", "Element", "ProcessingInstruction"}

\* Kinds of the nodes below the Document node.
ChildKinds == NodeKinds \ {"Document"}

\* name.local of the element at arena index i.
Names == << <<"p">>, <<"a">>, <<"d", "i", "v">> >>
NameOf(i) == Names[((i + Len(Names) - 1) % Len(Names)) + 1]

\* attrs of the element at arena index i: (name.local, value) pairs in source order.
AttrLists ==
  << << << <<"a">>, <<"1">> >>, << <<"b">>, <<"2">> >>, << <<"a">>, <<"3">> >> >>,
     << >>,
     << << <<"b">>, <<"\"", "<">> >>, << <<"c">>, << >> >> >> >>
AttrsOf(i) == AttrLists[((i + Len(AttrLists) - 1) % Len(AttrLists)) + 1]

\* contents of the text node at arena index i.
Texts ==
  << <<" ", "h", " ", "\n", "i", "\t", " ">>,
     <<"\n", " ">>,
     <<"<", "b", ">", "&">> >>
TextOf(i) == Texts[((i + Len(Texts) - 1) % Len(Texts)) + 1]

\* The ancestors of node i (i included) under the parent vector p.
RECURSIVE Path(_, _)
Path(p, i) == IF i = 0 THEN {0} ELSE {i} \cup Path(p, p[i])

\* Parent vectors of the ordered trees on nodes 0..n, node 0 the Document node,
\* the nodes numbered in document order.
ParentVectors(n) ==
  { p \in [1..n -> 0..(n - 1)] :
      \A i \in 1..n : /\ p[i] < i
                      /\ i > 1 => p[i] \in Path(p, i - 1) }

\* handle.children of node i: its children in document order.
RECURSIVE ChildrenFrom(_, _, _, _)
ChildrenFrom(p, n, i, j) ==
  IF j > n THEN << >>
  ELSE (IF p[j] = i THEN <<j>> ELSE << >>) \o ChildrenFrom(p, n, i, j + 1)

\* A node of the arena.
Node(kind, i, children) ==
  [ kind     |-> kind,
    name     |-> IF kind = "Element" THEN NameOf(i) ELSE << >>,
    attrs    |-> IF kind = "Element" THEN AttrsOf(i) ELSE << >>,
    contents |-> IF kind = "Text" THEN TextOf(i) ELSE << >>,
    children |-> children ]

\* The documents walked: every ordered tree of at most MaxNodes nodes below
\* the Document node, every node of any kind.
Doms ==
  UNION { { [ i \in 0..n |->
                Node(IF i = 0 THEN "Document" ELSE k[i], i, ChildrenFrom(p, n, i, i + 1)) ] :
            p \in ParentVectors(n), k \in [1..n -> ChildKinds] } :
          n \in 0..MaxNodes }

\* ------------------------------------------------------------- strings
\* char::is_whitespace on the characters the model uses.
IsWhitespace(c) == c \in {" ", "\t", "\n", "\r"}

RECURSIVE TrimStart(_)
TrimStart(s) ==
  IF s = << >> THEN << >>
  ELSE IF IsWhitespace(Head(s)) THEN TrimStart(Tail(s)) ELSE s

RECURSIVE TrimEnd(_)
TrimEnd(s) ==
  IF s = << >> THEN << >>
  ELSE IF IsWhitespace(s[Len(s)]) THEN TrimEnd(SubSeq(s, 1, Len(s) - 1)) ELSE s

\* Faulty variant of Trim: only the leading whitespace is removed.
Trim_StartOnly(s) == TrimStart(s)

\* str::trim
Trim(s) == TrimEnd(TrimStart(s))

\* ------------------------------------------------------------- Tag
\* Option<T> is a sequence of length 0 (None) or 1 (Some).
None == << >>
Some(x) == <<x>>

\* Faulty variant of from_name_and_attrs: the element's own attribute names
\* start out allowed.
from_name_and_attrs_AllowsAll(name, attrs) ==
  [ name               |-> name,
    attrs              |-> attrs,
    rewrite            |-> None,
    allowed_attributes |-> [k \in 1..Len(attrs) |-> attrs[k][1]],
    ignore_self        |-> FALSE,
    ignore_contents    |-> FALSE ]

from_name_and_attrs(name, attrs) ==
  [ name               |-> name,
    attrs              |-> attrs,
    rewrite            |-> None,
    allowed_attributes |-> << >>,
    ignore_self        |-> FALSE,
    ignore_contents    |-> FALSE ]

allow_attribute(tag, attr) ==
  [tag EXCEPT !.allowed_attributes = Append(@, attr)]

RECURSIVE allow_attributes(_, _)
allow_attributes(tag, attr) ==
  IF attr = << >> THEN tag
  ELSE allow_attributes([tag EXCEPT !.allowed_attributes = Append(@, Head(attr))], Tail(attr))

\* Faulty variants of ignore_self_and_contents: one flag is forgotten.
ignore_self_and_contents_SelfOnly(tag) ==
  [tag EXCEPT !.ignore_self = TRUE]

ignore_self_and_contents_ContentsOnly(tag) ==
  [tag EXCEPT !.ignore_contents = TRUE]

ignore_self_and_contents(tag) ==
  [tag EXCEPT !.ignore_self = TRUE, !.ignore_contents = TRUE]

\* Faulty variant of ignore_self: it sets the contents flag as well.
ignore_self_AndContents(tag) ==
  [tag EXCEPT !.ignore_self = TRUE, !.ignore_contents = TRUE]

ignore_self(tag) ==
  [tag EXCEPT !.ignore_self = TRUE]

rewrite_as(tag, new_contents) ==
  [tag EXCEPT !.rewrite = Some(new_contents)]

\* The arguments the callbacks pass.
AttrArgs == { <<"a">> }
AttrListArgs == { << <<"z">>, <<"b">>, <<"b">> >> }
RewriteArgs == { <<"X">> }

\* ------------------------------------------------------------- serialization
\* Faulty variant of IsAllowed: only the first allowed name is compared.
IsAllowed_FirstOnly(tag, attr) ==
  tag.allowed_attributes # << >> /\ tag.allowed_attributes[1] = attr[1]

\* tag.allowed_attributes.iter().any(|a| a == attr.0)
IsAllowed(tag, attr) ==
  \E k \in 1..Len(tag.allowed_attributes) : tag.allowed_attributes[k] = attr[1]

\* One pass of the loop over tag.attrs.
WriteAttr(tag, attr) ==
  IF IsAllowed(tag, attr)
  THEN <<" ">> \o attr[1] \o <<"=", "\"">> \o attr[2] \o <<"\"">>
  ELSE << >>

RECURSIVE WriteAttrs(_, _)
WriteAttrs(tag, k) ==
  IF k > Len(tag.attrs) THEN << >>
  ELSE WriteAttr(tag, tag.attrs[k]) \o WriteAttrs(tag, k + 1)

\* What `if !tag.ignore_self` writes before the children.
OpenTag(tag) ==
  IF ~tag.ignore_self
  THEN <<"<">> \o tag.name \o WriteAttrs(tag, 1) \o <<">">>
  ELSE << >>

\* What `if !tag.ignore_self` writes after the children.
CloseTag(tag) ==
  IF ~tag.ignore_self
  THEN <<"<", "/">> \o tag.name \o <<">">>
  ELSE << >>

\* Faulty variant of EarlyReturn: the rewrite is not returned.
EarlyReturn_NoRewrite(tag) ==
  IF tag.ignore_self /\ tag.ignore_contents THEN Some(<< >>) ELSE None

\* The two early returns after the callback: Some(value returned), or None.
EarlyReturn(tag) ==
  IF tag.ignore_self /\ tag.ignore_contents THEN Some(<< >>)
  ELSE IF tag.rewrite # None THEN Some(tag.rewrite[1])
  ELSE None

\* `if !tag.ignore_contents` around the loop over the children.
VisitsChildren(tag) == ~tag.ignore_contents

\* The match of the else branch: what a node that is no element writes.
WriteOther(node) ==
  IF node.kind = "Text" THEN Trim(node.contents) ELSE << >>

\* Faulty variant of AppendChild: the child's output is put in front.
AppendChild_InFront(output, value) == value \o output

\* output += &TagParser::internal_walk(child, callback): the caller's output
\* once the call on a child has returned `value`.
AppendChild(output, value) == output \o value

\* ------------------------------------------------------------- state
VARIABLES
  dom,       \* self.dom: the arena of nodes, node 0 the Document node
  stack,     \* the active calls of internal_walk, innermost last
  result,    \* Option: the String walk returned
  ncalls,    \* Tag method calls made so far
  called,    \* history: node -> the Tag methods its callback called
  decision,  \* history: node -> Option, the Tag as its callback left it
  returned,  \* history: node -> Option, the String its internal_walk returned
  trace      \* history: the callback invocations and returns, in order

vars == <<dom, stack, result, ncalls, called, decision, returned, trace>>

NodeIds == DOMAIN dom

Top == stack[Len(stack)]
TopNode == dom[Top.node]

Frame(n) == [ node |-> n, pc |-> "start", output |-> << >>, tag |-> None, child |-> 1 ]

SetTop(f) == [stack EXCEPT ![Len(stack)] = f]

Init ==
  /\ dom \in Doms
  /\ stack = << >>
  /\ result = None
  /\ ncalls = 0
  /\ called = [n \in DOMAIN dom |-> {}]
  /\ decision = [n \in DOMAIN dom |-> None]
  /\ returned = [n \in DOMAIN dom |-> None]
  /\ trace = << >>

\* The innermost call returns `value`: its caller appends it to its own output
\* and moves to the next child; the outermost call returns it from walk.
Return(value) ==
  /\ returned' = [returned EXCEPT ![Top.node] = Some(value)]
  /\ trace' = Append(trace, [ev |-> "return", node |-> Top.node])
  /\ IF Len(stack) = 1
     THEN /\ stack' = << >>
          /\ result' = Some(value)
     ELSE /\ stack' = [ SubSeq(stack, 1, Len(stack) - 1) EXCEPT
                          ![Len(stack) - 1] =
                             [@ EXCEPT !.output = AppendChild(@, value), !.child = @ + 1] ]
          /\ UNCHANGED result

\* TagParser::walk: internal_walk(&self.dom.document, &callback).
Walk ==
  /\ stack = << >>
  /\ result = None
  /\ stack' = << Frame(0) >>
  /\ UNCHANGED <<dom, result, ncalls, called, decision, returned, trace>>

\* internal_walk on an element: build the Tag, invoke the callback.
EnterElement ==
  /\ stack # << >>
  /\ Top.pc = "start"
  /\ TopNode.kind = "Element"
  /\ stack' = SetTop([Top EXCEPT !.pc = "callback",
                                 !.tag = Some(from_name_and_attrs(TopNode.name, TopNode.attrs))])
  /\ trace' = Append(trace, [ev |-> "callback", node |-> Top.node])
  /\ UNCHANGED <<dom, result, ncalls, called, decision, returned>>

\* internal_walk on any other node: the match, then the loop over the children.
EnterOther ==
  /\ stack # << >>
  /\ Top.pc = "start"
  /\ TopNode.kind # "Element"
  /\ stack' = SetTop([Top EXCEPT !.pc = "children", !.output = @ \o WriteOther(TopNode)])
  /\ UNCHANGED <<dom, result, ncalls, called, decision, returned, trace>>

\* The callback is running and calls a method of the Tag.
InCallback ==
  /\ stack # << >>
  /\ Top.pc = "callback"
  /\ Cardinality(DOMAIN dom) - 1 + ncalls < MaxSize

Mutate(method, tag) ==
  /\ stack' = SetTop([Top EXCEPT !.tag = Some(tag)])
  /\ ncalls' = ncalls + 1
  /\ called' = [called EXCEPT ![Top.node] = @ \cup {method}]
  /\ UNCHANGED <<dom, result, decision, returned, trace>>

CallAllowAttribute ==
  /\ InCallback
  /\ \E attr \in AttrArgs : Mutate("allow_attribute", allow_attribute(Top.tag[1], attr))

CallAllowAttributes ==
  /\ InCallback
  /\ \E attr \in AttrListArgs : Mutate("allow_attributes", allow_attributes(Top.tag[1], attr))

CallIgnoreSelfAndContents ==
  /\ InCallback
  /\ Mutate("ignore_self_and_contents", ignore_self_and_contents(Top.tag[1]))

CallIgnoreSelf ==
  /\ InCallback
  /\ Mutate("ignore_self", ignore_self(Top.tag[1]))

CallRewriteAs ==
  /\ InCallback
  /\ \E s \in RewriteArgs : Mutate("rewrite_as", rewrite_as(Top.tag[1], s))

\* The callback returns: the early returns, else the opening tag.
CallbackReturn ==
  /\ stack # << >>
  /\ Top.pc = "callback"
  /\ decision' = [decision EXCEPT ![Top.node] = Top.tag]
  /\ LET tag == Top.tag[1] IN
       IF EarlyReturn(tag) # None
       THEN Return(EarlyReturn(tag)[1])
       ELSE /\ stack' = SetTop([Top EXCEPT !.pc = "children", !.output = @ \o OpenTag(tag)])
            /\ UNCHANGED <<result, returned, trace>>
  /\ UNCHANGED <<dom, ncalls, called>>

\* Faulty variant of HasNextChild: the children of a comment or doctype node
\* are not walked.
HasNextChild_NotBelowComments ==
  /\ Top.child <= Len(TopNode.children)
  /\ TopNode.kind \notin {"Comment", "Doctype"}
  /\ TopNode.kind = "Element" => VisitsChildren(Top.tag[1])

\* Whether the loop over the children of the innermost call has a next child.
HasNextChild ==
  /\ Top.child <= Len(TopNode.children)
  /\ TopNode.kind = "Element" => VisitsChildren(Top.tag[1])

\* output += &TagParser::internal_walk(child, callback): the call.
Descend ==
  /\ stack # << >>
  /\ Top.pc = "children"
  /\ HasNextChild
  /\ stack' = Append(stack, Frame(TopNode.children[Top.child]))
  /\ UNCHANGED <<dom, result, ncalls, called, decision, returned, trace>>

\* The children are done: the closing tag of an element, and `output` is returned.
Finish ==
  /\ stack # << >>
  /\ Top.pc = "children"
  /\ ~HasNextChild
  /\ Return(Top.output \o (IF TopNode.kind = "Element" THEN CloseTag(Top.tag[1]) ELSE << >>))
  /\ UNCHANGED <<dom, ncalls, called, decision>>

Next ==
  \/ Walk
  \/ EnterElement
  \/ EnterOther
  \/ CallAllowAttribute
  \/ CallAllowAttributes
  \/ CallIgnoreSelfAndContents
  \/ CallIgnoreSelf
  \/ CallRewriteAs
  \/ CallbackReturn
  \/ Descend
  \/ Finish

Spec == Init /\ [][Next]_vars

\* ------------------------------------------------------------- vocabulary of the properties
Finished == result # None

IsElement(n) == dom[n].kind = "Element"

ChildSet(n) == { dom[n].children[k] : k \in 1..Len(dom[n].children) }

\* The nodes strictly below n.
RECURSIVE Descendants(_)
Descendants(n) == ChildSet(n) \cup UNION { Descendants(c) : c \in ChildSet(n) }

\* The nodes strictly above n.
Ancestors(n) == { a \in NodeIds : n \in Descendants(a) }

\* How often the callback was invoked for node n.
Invocations(n) ==
  Cardinality({ k \in 1..Len(trace) : trace[k].ev = "callback" /\ trace[k].node = n })

\* Node n was never entered: no callback, no return, no active call.
Untouched(n) ==
  /\ decision[n] = None
  /\ returned[n] = None
  /\ called[n] = {}
  /\ \A k \in 1..Len(trace) : trace[k].node # n
  /\ \A k \in 1..Len(stack) : stack[k].node # n

\* The serializations of the nodes cs, concatenated in that order.
RECURSIVE ConcatReturned(_)
ConcatReturned(cs) ==
  IF cs = << >> THEN << >>
  ELSE returned[Head(cs)][1] \o ConcatReturned(Tail(cs))

\* The call on n has returned with every child serialized.
ChildrenSerialized(n) == \A c \in ChildSet(n) : returned[c] # None

Suppressing == {"ignore_self_and_contents", "rewrite_as"}

\* ------------------------------------------------------------- C1
\* C1: for every element whose callback called rewrite_as(s), the string its
\* internal_walk returns (the contribution of the node and its subtree) is
\* exactly s, whatever other Tag methods the callback called.
C1_RewritePrecedence ==
  \A n \in NodeIds :
    ("rewrite_as" \in called[n] /\ returned[n] # None)
      => returned[n][1] = decision[n][1].rewrite[1]

\* ------------------------------------------------------------- C2
\* C2 as stated: once walk has returned, the callback was invoked exactly once
\* for every element of the tree, those below a suppressed or rewritten
\* element included.
C2_OncePerElement ==
  Finished => \A n \in NodeIds : IsElement(n) => Invocations(n) = 1

\* An element is reached when no element above it was suppressed with
\* ignore_self_and_contents or replaced with rewrite_as.
Reached(n) ==
  \A a \in Ancestors(n) : IsElement(a) => called[a] \cap Suppressing = {}

\* C2 as amended: the callback is never invoked twice for an element, and once
\* walk has returned it was invoked exactly once for every reached element and
\* not at all for the elements below a suppressed or rewritten one.
C2_OncePerReachedElement ==
  /\ \A n \in NodeIds : Invocations(n) <= 1
  /\ \A n \in NodeIds : ~IsElement(n) => Invocations(n) = 0
  /\ Finished =>
       \A n \in NodeIds :
         IsElement(n) => Invocations(n) = (IF Reached(n) THEN 1 ELSE 0)

C2_Witness ==
  /\ Finished
  /\ \E n, d \in NodeIds :
       /\ IsElement(n) /\ IsElement(d) /\ d \in Descendants(n)
       /\ Invocations(n) = 1
       /\ Invocations(d) = 0
  /\ \E n, d \in NodeIds :
       /\ IsElement(n) /\ IsElement(d) /\ d \in Descendants(n)
       /\ Invocations(n) = 1
       /\ Invocations(d) = 1

\* ------------------------------------------------------------- C3
\* C3: an element whose callback called ignore_self_and_contents and not
\* rewrite_as returns the empty string, and no node below it is ever entered:
\* no callback, no output.
C3_SuppressedSubtreeEmpty ==
  \A n \in NodeIds :
    ("ignore_self_and_contents" \in called[n] /\ "rewrite_as" \notin called[n]
       /\ decision[n] # None)
      => /\ returned[n] = Some(<< >>)
         /\ \A d \in Descendants(n) : Untouched(d)

C3_Witness ==
  /\ Finished
  /\ \E n, d, t \in NodeIds :
       /\ "ignore_self_and_contents" \in called[n] /\ "rewrite_as" \notin called[n]
       /\ returned[n] = Some(<< >>)
       /\ {d, t} \subseteq Descendants(n)
       /\ IsElement(d)
       /\ dom[t].kind = "Text" /\ Trim(dom[t].contents) # << >>

\* ------------------------------------------------------------- C4
\* The document as written with every attribute dropped: every element as
\* <name>...</name> around its children, every text node trimmed, the other
\* nodes transparent.
RECURSIVE Bare(_)
RECURSIVE BareAll(_)
Bare(n) ==
  IF IsElement(n)
  THEN <<"<">> \o dom[n].name \o <<">">> \o BareAll(dom[n].children)
         \o <<"<", "/">> \o dom[n].name \o <<">">>
  ELSE (IF dom[n].kind = "Text" THEN Trim(dom[n].contents) ELSE << >>)
         \o BareAll(dom[n].children)
BareAll(cs) == IF cs = << >> THEN << >> ELSE Bare(Head(cs)) \o BareAll(Tail(cs))

NoDecisions == \A n \in NodeIds : called[n] = {}

\* C4: when no callback calls any Tag method, walk returns the document with
\* every element as <name> ... </name> without attributes and every text node
\* trimmed, nested and ordered as in the tree.
C4_NoopKeepsTagsDropsAttributes ==
  (Finished /\ NoDecisions) => result[1] = Bare(0)

C4_Witness ==
  /\ Finished
  /\ NoDecisions
  /\ \E n, d, t \in NodeIds :
       /\ IsElement(n) /\ dom[n].attrs # << >>
       /\ IsElement(d) /\ d \in Descendants(n)
       /\ dom[t].kind = "Text" /\ t \in Descendants(n)

\* ------------------------------------------------------------- C5
\* The opening tag of element n was written: its callback called none of the
\* methods that suppress the tag.
TagWritten(n) ==
  /\ IsElement(n)
  /\ decision[n] # None
  /\ called[n] \cap {"ignore_self", "ignore_self_and_contents", "rewrite_as"} = {}

\* What the call on n has written so far.
Written(n) ==
  IF returned[n] # None THEN returned[n][1]
  ELSE LET k == CHOOSE k \in 1..Len(stack) : stack[k].node = n IN stack[k].output

AllowedNames(n) ==
  { decision[n][1].allowed_attributes[k] : k \in 1..Len(decision[n][1].allowed_attributes) }

\* The element's own pairs whose key is an allowed name, in source order.
Kept(n) ==
  LET Keep(pair) == pair[1] \in AllowedNames(n)
  IN  SelectSeq(dom[n].attrs, Keep)

RECURSIVE FormatPairs(_)
FormatPairs(pairs) ==
  IF pairs = << >> THEN << >>
  ELSE <<" ">> \o Head(pairs)[1] \o <<"=", "\"">> \o Head(pairs)[2] \o <<"\"">>
         \o FormatPairs(Tail(pairs))

IsPrefix(s, t) == Len(s) <= Len(t) /\ SubSeq(t, 1, Len(s)) = s

\* C5: every opening tag written is <name, then key="value" for exactly the
\* element's own pairs whose key is in the allowed list, in source order with
\* their values, then >.
C5_AttributesFiltered ==
  \A n \in NodeIds :
    TagWritten(n) =>
      IsPrefix(<<"<">> \o dom[n].name \o FormatPairs(Kept(n)) \o <<">">>, Written(n))

C5_Witness ==
  \E n \in NodeIds :
    /\ TagWritten(n)
    /\ returned[n] # None
    /\ Len(decision[n][1].allowed_attributes) = 2
    /\ Len(dom[n].attrs) = 3
    /\ Len(Kept(n)) = 2
    /\ Kept(n)[1][1] = Kept(n)[2][1]

\* ------------------------------------------------------------- C6
OnlyIgnoresSelf(n) ==
  /\ "ignore_self" \in called[n]
  /\ called[n] \cap Suppressing = {}

\* C6: an element whose callback called ignore_self, and neither
\* ignore_self_and_contents nor rewrite_as, returns exactly the serializations
\* of its children in document order: no tag, no attribute.
C6_IgnoreSelfKeepsChildren ==
  \A n \in NodeIds :
    (OnlyIgnoresSelf(n) /\ returned[n] # None)
      => /\ ChildrenSerialized(n)
         /\ returned[n][1] = ConcatReturned(dom[n].children)

C6_Witness ==
  \E n \in NodeIds :
    /\ OnlyIgnoresSelf(n)
    /\ returned[n] # None
    /\ dom[n].attrs # << >>
    /\ Len(dom[n].children) = 2
    /\ \A c \in ChildSet(n) : returned[c] # None /\ returned[c][1] # << >>
    /\ returned[dom[n].children[1]] # returned[dom[n].children[2]]

\* ------------------------------------------------------------- C7
\* t is s without its leading and trailing whitespace, the rest untouched.
IsTrimOf(t, s) ==
  \E i \in 1..(Len(s) + 1) : \E j \in 0..Len(s) :
    /\ t = SubSeq(s, i, j)
    /\ \A k \in 1..(i - 1) : IsWhitespace(s[k])
    /\ \A k \in (j + 1)..Len(s) : IsWhitespace(s[k])
    /\ i <= j => (~IsWhitespace(s[i]) /\ ~IsWhitespace(s[j]))
    /\ i > j => i = j + 1

\* C7: a text node that is walked writes its contents without the leading and
\* trailing whitespace and otherwise unchanged; whitespace alone writes nothing.
C7_TextTrimmed ==
  \A n \in NodeIds :
    (dom[n].kind = "Text" /\ returned[n] # None)
      => \E t \in { SubSeq(returned[n][1], 1, k) : k \in 0..Len(returned[n][1]) } :
           /\ IsTrimOf(t, dom[n].contents)
           /\ returned[n][1] = t \o ConcatReturned(dom[n].children)

C7_Witness ==
  /\ \E n \in NodeIds :
       /\ dom[n].kind = "Text" /\ returned[n] # None
       /\ IsWhitespace(dom[n].contents[1])
       /\ \E k \in 1..Len(returned[n][1]) : IsWhitespace(returned[n][1][k])
  /\ \E n \in NodeIds :
       /\ dom[n].kind = "Text" /\ returned[n] = Some(<< >>)
       /\ dom[n].contents # << >>

\* ------------------------------------------------------------- C8
Subtree(n) == {n} \cup Descendants(n)

\* The callback of an element comes before those of the elements below it.
ParentFirst ==
  \A k1, k2 \in 1..Len(trace) :
    (trace[k1].ev = "callback" /\ trace[k2].ev = "callback"
       /\ trace[k2].node \in Descendants(trace[k1].node))
      => k1 < k2

\* Everything that happens in the subtree of a child happens before anything
\* in the subtree of a later sibling.
SiblingsInOrder ==
  \A p \in NodeIds : \A i, j \in 1..Len(dom[p].children) :
    i < j =>
      \A k1, k2 \in 1..Len(trace) :
        (trace[k1].node \in Subtree(dom[p].children[i])
           /\ trace[k2].node \in Subtree(dom[p].children[j]))
          => k1 < k2

\* What a call returns when it walks the children: what the node writes before
\* them, their serializations in order, what it writes after them.
Composed(n) ==
  IF IsElement(n)
  THEN OpenTag(decision[n][1]) \o ConcatReturned(dom[n].children) \o CloseTag(decision[n][1])
  ELSE WriteOther(dom[n]) \o ConcatReturned(dom[n].children)

\* C8: callbacks and output follow document order: parent before descendants,
\* the whole subtree of a child before the next sibling, and the output of a
\* node is opening tag, children in order, closing tag.
C8_DocumentOrder ==
  Finished =>
    /\ ParentFirst
    /\ SiblingsInOrder
    /\ \A n \in NodeIds :
         (returned[n] # None /\ (IsElement(n) => called[n] \cap Suppressing = {}))
           => /\ ChildrenSerialized(n)
              /\ returned[n][1] = Composed(n)

C8_Witness ==
  /\ Finished
  /\ \E a, b, c \in NodeIds :
       /\ dom[0].children = <<a, c>>
       /\ dom[a].children = <<b>>
       /\ IsElement(a) /\ IsElement(b) /\ IsElement(c)
       /\ Invocations(a) = 1 /\ Invocations(b) = 1 /\ Invocations(c) = 1
       /\ called[a] = {} /\ called[b] = {} /\ called[c] = {}

\* ------------------------------------------------------------- C9
Dropped(n) == dom[n].kind \in {"Comment", "Doctype"}

ActiveTags == { stack[k].tag[1] : k \in { i \in 1..Len(stack) : stack[i].tag # None } }

ContentsOnlyWithSelf ==
  \A tag \in ActiveTags : tag.ignore_contents => tag.ignore_self

FlagsStay ==
  \A k \in 1..Len(stack) :
    (k <= Len(stack') /\ stack'[k].node = stack[k].node
       /\ stack[k].tag # None /\ stack'[k].tag # None)
      => /\ stack[k].tag[1].ignore_self => stack'[k].tag[1].ignore_self
         /\ stack[k].tag[1].ignore_contents => stack'[k].tag[1].ignore_contents

TagsImplyChildren ==
  \A n \in NodeIds :
    (IsElement(n) /\ returned[n] # None
       /\ IsPrefix(<<"<">> \o dom[n].name, returned[n][1]))
      => ChildrenSerialized(n)

\* C10: whatever methods the callback calls on a Tag, ignore_contents implies
\* ignore_self, no flag goes back from true to false, and an element whose
\* tags are written has all its children serialized.
C10_NoTagWithoutChildren ==
  /\ [](ContentsOnlyWithSelf /\ TagsImplyChildren)
  /\ [][FlagsStay]_vars

C10_Witness ==
  \E k \in 1..Len(stack) :
    /\ stack[k].tag # None
    /\ stack[k].tag[1].ignore_contents
    /\ called[stack[k].node] = {"ignore_self", "ignore_self_and_contents"}
    /\ \E n \in NodeIds :
         /\ IsElement(n) /\ returned[n] # None
         /\ IsPrefix(<<"<">> \o dom[n].name, returned[n][1])
         /\ ChildSet(n) # {}

====
